---- MODULE Spec2Model ----
(***************************************************************************)
(* Model of datos_empresas/app_facturas.py: the label-anchored invoice     *)
(* extractor (process_file and its helpers) and the batch loop that calls  *)
(* it for every uploaded file.                                             *)
(*                                                                         *)
(* Text is a TLA+ string.  The non-ASCII characters the program meets are  *)
(* written with ASCII stand-ins, one character each:                       *)
(*     "{" = N-tilde (upper)      "}" = n-tilde (lower)                    *)
(*     "[" = O-acute (upper)      "]" = o-acute (lower)                    *)
(*     "~" = combining tilde      "^" = combining acute accent             *)
(* Numbers read by get_float are fixed-point integers in units of 1/Scale. *)
(***************************************************************************)
EXTENDS Integers, Sequences, FiniteSets, TLC

(***************************************************************************)
(* State.  The batch loop (lines 393-407) and the process_file call it is  *)
(* in; the locals of process_file carry the names they have in the source. *)
(***************************************************************************)
VARIABLES
    uploaded_files,   \* the batch, a sequence of documents
    file_idx,         \* the position of the `for file in uploaded_files` loop
    pc,               \* where the current process_file call stands
    max_row,          \* sheet.max_row of the open worksheet
    header_data,      \* dict of the header fields
    col_map,          \* dict column role -> column
    header_row,       \* the table's header row, 0 for None
    products,         \* list of product dicts
    curr,             \* the row the streaming loop is at
    empty_streak,
    last_row_table,
    ended,            \* how the streaming loop ended, "" while it has not
    returned,         \* what each process_file call returned: [rows, err]
    all_data,         \* the records collected by the batch loop
    errors            \* the (file name, message) pairs shown with st.error

vars == <<uploaded_files, file_idx, pc, max_row, header_data, col_map, header_row,
          products, curr, empty_streak, last_row_table, ended, returned, all_data, errors>>

(***************************************************************************)
(* Cell values: what openpyxl hands back as cell.value.                    *)
(***************************************************************************)
None == [t |-> "none", s |-> "", n |-> 0]
Str(s) == [t |-> "str", s |-> s, n |-> 0]
Num(n) == [t |-> "int", s |-> "", n |-> n]
\* a datetime at midnight, n = year*10000 + month*100 + day
Date(y, m, d) == [t |-> "datetime", s |-> "", n |-> y * 10000 + m * 100 + d]

\* Python truthiness of a cell value (`if text`, `if cell.value`, `not text`)
Truthy(v) ==
    CASE v.t = "none" -> FALSE
      [] v.t = "str" -> v.s # ""
      [] v.t = "int" -> v.n # 0
      [] OTHER -> TRUE

(***************************************************************************)
(* The cell values and texts of the documents the model is run on          *)
(***************************************************************************)
NoHF == <<"", "", "", "", "", "", "", "", "", "", "", "", "", "", "", "", "", "">>
Doc(name, rows, hf) == [name |-> name, ok |-> TRUE, rows |-> rows, hf |-> hf]
BrokenDoc == [name |-> "broken.xlsx", ok |-> FALSE, rows |-> <<>>, hf |-> NoHF]

TableHeads ==
    { <<Str("Descripci]n"), Str("Cantidad"), Str("Precio Unit."), Str("Total")>>,
      <<Str("DESCRIPTION"), Str("QTTY"), Str("PRICE"), Str("Lote")>> }

RowBlank == <<None, None, None, None>>
RowNoDesc == <<Str("  "), Num(1), Num(5), Num(5)>>
RowWidgetA == <<Str("Widget A"), Num(10), Num(0), Num(50)>>
RowWidgetB == <<Str("Widget B"), Num(10), Str("12.5"), None>>
RowWidgetC == <<Str("Widget C"), Num(2), Str("$ 3.00"), Str("7")>>
RowTotal == <<Str("Total general"), Num(20), Str("12.5"), Num(250)>>
RowSubTotal == <<Str("Sub total"), Num(12), Num(3), Num(36)>>
RowNote == <<Str("Nota: la carga viaja por cuenta del comprador"), None, None, None>>

TableRows == {RowBlank, RowNoDesc, RowWidgetA, RowWidgetB, RowWidgetC, RowTotal, RowSubTotal}

DateColumns ==
    { <<None, None>>,
      <<Str("Di^a"), Str("5")>>,
      <<Str("DIA"), Num(15)>>,
      <<Str("Mes"), Str("MARZO")>>,
      <<Str("MES"), Str("12")>>,
      <<Str("A{O"), Str("2024")>>,
      <<Str("Fecha"), Date(2024, 3, 5)>>,
      <<Str("DATE"), Str("5 de marzo")>>,
      <<Str("FECHA"), None>> }

CodeColumns ==
    { <<None, None>>,
      <<Str("TOTAL FOB"), None>>,
      <<Str("Precio CIF en d]lares"), Str("FOBS")>>,
      <<Str("Cliente"), Str("ACME EXW")>>,
      <<Str("Forma de pago"), Str("Venta bajo condici]n")>>,
      <<Str("Tipo Flete"), Str("Collect")>>,
      <<Str("Incoterm"), Str("Euro")>>,
      <<Str("POD"), Str("Exp 77")>> }

HFs == {NoHF, [NoHF EXCEPT ![2] = "Mercaderi^a a consignaci]n", ![4] = "FCA USD"]}

\* columns of three cells for the label lookups: labels in the first and in the
\* second row, values one and two cells below, cells that look like labels
LabelColumns ==
    { <<None, None, None>>,
      <<Str("Cliente"), None, Str("ACME EXW")>>,
      <<None, Str("Customer"), Str("Fecha 2024")>>,
      <<Str("Incoterm"), None, None>>,
      <<Str("Tipo Flete"), Str("Collect"), None>>,
      <<Str("POD"), Str("Venta bajo condici]n"), None>>,
      <<Str("Sold to"), Str("Destination"), None>> }

\* rows below a table
RowThanks == <<Str("Gracias por su preferencia y su compra"), None, None, None>>
RowRemarks == <<Str("Remarks"), Str("Fragil"), None, None>>
RowObsLabel == <<Str("Observaciones"), None, None, None>>
RowLote ==
    <<Str("Lote 7 sale el lunes"), Str("      Entregar en la bodega 5 del puerto      "),
      None, None>>

FooterLines == {RowBlank, RowNote, RowThanks, RowRemarks, RowObsLabel, RowLote}

\* print header/footer parts: none, a long text, a short text
ObsHFs == HFs \cup {[NoHF EXCEPT ![5] = "FCA USD"]}

\* every cell value of the documents
CellValues ==
    {None, Num(0)}
    \cup UNION {{r[i] : i \in 1..Len(r)} :
                    r \in TableHeads \cup TableRows \cup {RowNote} \cup FooterLines \cup LabelColumns}
    \cup UNION {{c[1], c[2]} : c \in DateColumns \cup CodeColumns}

(***************************************************************************)
(* String helpers                                                          *)
(***************************************************************************)
Least(S) == CHOOSE x \in S : \A y \in S : x <= y
Greatest(S) == CHOOSE x \in S : \A y \in S : x >= y
Min(a, b) == IF a < b THEN a ELSE b
Max(a, b) == IF a > b THEN a ELSE b

Ch(s, i) == SubSeq(s, i, i)
Rest(s) == SubSeq(s, 2, Len(s))

\* Python `k in s` for strings
Contains(k, s) ==
    \E i \in 1..(Len(s) - Len(k) + 1) : SubSeq(s, i, i + Len(k) - 1) = k

\* Python s.startswith(k)
StartsWith(s, k) == Len(s) >= Len(k) /\ SubSeq(s, 1, Len(k)) = k

RECURSIVE Truthies(_)
\* the texts kept by `if p.text: texts.append(p.text)`
Truthies(props) ==
    IF props = <<>> THEN <<>>
    ELSE (IF Head(props) # "" THEN <<Head(props)>> ELSE <<>>) \o Truthies(Tail(props))

RECURSIVE Join(_)
\* " | ".join(texts)
Join(texts) ==
    IF texts = <<>> THEN ""
    ELSE IF Len(texts) = 1 THEN texts[1]
    ELSE texts[1] \o " | " \o Join(Tail(texts))

Digits == "0123456789"
IsDigit(c) == \E i \in 1..10 : Ch(Digits, i) = c
DigitVal(c) == (CHOOSE i \in 1..10 : Ch(Digits, i) = c) - 1

\* Python s.isdigit(): non-empty and every character a digit
IsDigitStr(s) == s # "" /\ \A i \in 1..Len(s) : IsDigit(Ch(s, i))

RECURSIVE NatStr(_)
\* str(n) for a natural number
NatStr(n) == IF n < 10 THEN Ch(Digits, n + 1)
             ELSE NatStr(n \div 10) \o Ch(Digits, (n % 10) + 1)

\* n rendered with at least w digits, zero padded (strftime's %d, %m, %Y)
Pad(n, w) == IF w = 2 /\ n < 10 THEN "0" \o NatStr(n) ELSE NatStr(n)

\* Strftime with the month first
Strftime_MonthFirst(v) ==
    Pad((v.n \div 100) % 100, 2) \o "/" \o Pad(v.n % 100, 2) \o "/" \o Pad(v.n \div 10000, 4)

\* datetime.strftime('%d/%m/%Y')
Strftime(v) ==
    Pad(v.n % 100, 2) \o "/" \o Pad((v.n \div 100) % 100, 2) \o "/" \o Pad(v.n \div 10000, 4)

\* str(value) as Python renders it
PyStr(v) ==
    CASE v.t = "none" -> "None"
      [] v.t = "str" -> v.s
      [] v.t = "int" -> IF v.n < 0 THEN "-" \o NatStr(-v.n) ELSE NatStr(v.n)
      [] OTHER -> Pad(v.n \div 10000, 4) \o "-" \o Pad((v.n \div 100) % 100, 2) \o "-"
                  \o Pad(v.n % 100, 2) \o " 00:00:00"

(***************************************************************************)
(* normalize_text                                                          *)
(***************************************************************************)
LowerAlpha == "abcdefghijklmnopqrstuvwxyz}]"
UpperAlpha == "ABCDEFGHIJKLMNOPQRSTUVWXYZ{["

\* str.upper() on one character
UpperChar(c) ==
    IF \E i \in 1..Len(LowerAlpha) : Ch(LowerAlpha, i) = c
    THEN Ch(UpperAlpha, CHOOSE i \in 1..Len(LowerAlpha) : Ch(LowerAlpha, i) = c)
    ELSE c

\* unicodedata.normalize('NFD', c) on one character
NFDChar(c) ==
    CASE c = "{" -> "N~"
      [] c = "}" -> "n~"
      [] c = "[" -> "O^"
      [] c = "]" -> "o^"
      [] OTHER -> c

\* unicodedata.category(c) = 'Mn'
IsMn(c) == c = "~" \/ c = "^"

RECURSIVE Upper(_)
Upper(s) == IF s = "" THEN "" ELSE UpperChar(Ch(s, 1)) \o Upper(Rest(s))

RECURSIVE LStrip(_)
LStrip(s) == IF s # "" /\ Ch(s, 1) = " " THEN LStrip(Rest(s)) ELSE s

RECURSIVE RStrip(_)
RStrip(s) == IF s # "" /\ Ch(s, Len(s)) = " " THEN RStrip(SubSeq(s, 1, Len(s) - 1)) ELSE s

\* str.strip()
Strip(s) == RStrip(LStrip(s))

RECURSIVE NFD(_)
NFD(s) == IF s = "" THEN "" ELSE NFDChar(Ch(s, 1)) \o NFD(Rest(s))

RECURSIVE DropMn(_)
DropMn(s) == IF s = "" THEN ""
             ELSE (IF IsMn(Ch(s, 1)) THEN "" ELSE Ch(s, 1)) \o DropMn(Rest(s))

normalize_text(v) ==
    IF ~Truthy(v) THEN ""
    ELSE DropMn(NFD(Strip(Upper(PyStr(v)))))

(***************************************************************************)
(* get_float                                                               *)
(***************************************************************************)
\* one unit of a parsed number is 1/Scale
Scale == 100

RECURSIVE KeepNumeric(_)
\* re.sub(r'[^\d.,-]', '', s)
KeepNumeric(s) ==
    IF s = "" THEN ""
    ELSE (IF IsDigit(Ch(s, 1)) \/ Ch(s, 1) = "." \/ Ch(s, 1) = "," \/ Ch(s, 1) = "-"
          THEN Ch(s, 1) ELSE "") \o KeepNumeric(Rest(s))

RECURSIVE DropCommas(_)
\* s.replace(',', '')
DropCommas(s) ==
    IF s = "" THEN ""
    ELSE (IF Ch(s, 1) = "," THEN "" ELSE Ch(s, 1)) \o DropCommas(Rest(s))

RECURSIVE NatVal(_)
\* int(s) for a string of digits ("" is 0)
NatVal(s) == IF s = "" THEN 0
             ELSE NatVal(SubSeq(s, 1, Len(s) - 1)) * 10 + DigitVal(Ch(s, Len(s)))

\* the position of the first "." of s, or 0
DotAt(s) == IF Contains(".", s) THEN CHOOSE i \in 1..Len(s) :
                    Ch(s, i) = "." /\ \A j \in 1..(i - 1) : Ch(s, j) # "."
            ELSE 0

\* float() accepts, of the characters KeepNumeric leaves, an unsigned body of
\* digits with at most one "." and at least one digit
FloatBodyOk(b) ==
    /\ \A i \in 1..Len(b) : IsDigit(Ch(b, i)) \/ Ch(b, i) = "."
    /\ \E i \in 1..Len(b) : IsDigit(Ch(b, i))
    /\ Cardinality({i \in 1..Len(b) : Ch(b, i) = "."}) <= 1

\* the value of an accepted body, in units of 1/Scale (two decimals are kept)
FloatBodyVal(b) ==
    LET d == DotAt(b)
        ip == IF d = 0 THEN b ELSE SubSeq(b, 1, d - 1)
        fp == IF d = 0 THEN "" ELSE SubSeq(b, d + 1, Len(b))
        f2 == SubSeq(fp \o "00", 1, 2)
    IN NatVal(ip) * Scale + NatVal(f2)

\* float(s) on the cleaned text; the ValueError branch is a result of 0
PyFloat(s) ==
    LET neg == s # "" /\ Ch(s, 1) = "-"
        b == IF neg THEN Rest(s) ELSE s
    IN IF FloatBodyOk(b) THEN (IF neg THEN -FloatBodyVal(b) ELSE FloatBodyVal(b))
       ELSE 0

get_float(v) ==
    IF v.t = "none" THEN 0
    ELSE LET s_clean == KeepNumeric(PyStr(v))
         IN IF s_clean = "" THEN 0 ELSE PyFloat(DropCommas(s_clean))

\* q_num * p_num on fixed-point numbers
Times(a, b) == (a * b) \div Scale

(***************************************************************************)
(* parse_month                                                             *)
(***************************************************************************)
months ==
    << <<"ENERO", "01">>, <<"JANUARY", "01">>, <<"JAN", "01">>,
       <<"FEBRERO", "02">>, <<"FEBRUARY", "02">>, <<"FEB", "02">>,
       <<"MARZO", "03">>, <<"MARCH", "03">>, <<"MAR", "03">>,
       <<"ABRIL", "04">>, <<"APRIL", "04">>, <<"APR", "04">>,
       <<"MAYO", "05">>, <<"MAY", "05">>,
       <<"JUNIO", "06">>, <<"JUNE", "06">>, <<"JUN", "06">>,
       <<"JULIO", "07">>, <<"JULY", "07">>, <<"JUL", "07">>,
       <<"AGOSTO", "08">>, <<"AUGUST", "08">>, <<"AUG", "08">>,
       <<"SEPTIEMBRE", "09">>, <<"SEPTEMBER", "09">>, <<"SEP", "09">>,
       <<"OCTUBRE", "10">>, <<"OCTOBER", "10">>, <<"OCT", "10">>,
       <<"NOVIEMBRE", "11">>, <<"NOVEMBER", "11">>, <<"NOV", "11">>,
       <<"DICIEMBRE", "12">>, <<"DECEMBER", "12">>, <<"DEC", "12">> >>

\* the first month name of the table held by the text, as an index, or 0
MonthHit(text) ==
    LET hits == {i \in 1..Len(months) : Contains(months[i][1], text)}
    IN IF hits = {} THEN 0 ELSE Least(hits)

\* lines 55-58 on the normalized text, `hit` being the month name found
MonthOf(text, hit) ==
    IF hit # 0 THEN Str(months[hit][2])
    ELSE IF IsDigitStr(text) /\ Len(text) = 1 THEN Str("0" \o text)
    ELSE IF IsDigitStr(text) THEN Str(text)
    ELSE None

MonthOfText(text) == MonthOf(text, MonthHit(text))

\* the result is a string value or None
parse_month(s) == MonthOfText(normalize_text(Str(s)))

(***************************************************************************)
(* The keyword sets of process_file                                        *)
(***************************************************************************)
kw_cliente == <<"CLIENTE", "CUSTOMER", "CONSIGNEE", "SOLD TO">>
kw_exp == <<"EXP", "INVOICE NO", "FACTURA N">>
kw_year == <<"A{O", "YEAR">>
kw_month == <<"MES", "MONTH">>
kw_day == <<"DIA", "DAY">>
kw_fecha == <<"FECHA", "DATE">>
kw_cond_strong == <<"CONDICION DE VENTA", "TERMS OF SALE", "DELIVERY TERMS", "INCOTERM">>
kw_cond_weak == <<"TIPO FLETE", "FREIGHT TYPE">>
kw_pago == <<"FORMA DE PAGO", "PAYMENT TERMS">>
kw_emb == <<"PUERTO DE EMBARQUE", "LOADING PORT", "POL">>
kw_dest == <<"PUERTO DESTINO", "DISCHARGING PORT", "DESTINATION", "POD">>
kw_tc == <<"TIPO DE CAMBIO", "TIPO CAMBIO", "T.C.", "EXCHANGE RATE">>
kw_obs == <<"OBSERVACIONES", "REMARKS", "NOTAS", "GLOSA", "COMENTARIOS">>
rescue_phrases == <<"BAJO CONDICION", "UNDER CONDITION", "A CONSIGNACION">>
incoterm_list == <<"FOB", "CIF", "CFR", "EXW", "FCA">>
currency_map == << <<"D[LAR", "USD">>, <<"DOLAR", "USD">>, <<"USD", "USD">>, <<"EURO", "EUR">> >>
kw_desc == <<"DESCRIPCION", "DESCRIPTION", "MERCADERIA">>
kw_qty == <<"CANTIDAD", "QUANTITY", "QTTY", "PCS", "BOXES">>
kw_price == <<"PRECIO", "PRICE", "UNIT">>
kw_total == <<"TOTAL">>
footer_stop_markers == <<"TOTAL", "PAGE", "FIRMA", "SIGNATURE", "GRACIAS", "PAGINA">>

\* the keyword sets handed to find_label_cell
LabelSets ==
    {kw_cliente, kw_exp, kw_year, kw_month, kw_day, kw_fecha, kw_cond_strong, kw_cond_weak,
     kw_pago, kw_emb, kw_dest, kw_tc, kw_obs}

(***************************************************************************)
(* Tabulation: normalize_text and get_float are evaluated once for the     *)
(* values and texts of the documents and read from the table afterwards.   *)
(***************************************************************************)
\* the texts the scans meet: str(cell.value), stripped or not, and the joined
\* header/footer text
Texts ==
    UNION {{PyStr(v), Strip(PyStr(v))} : v \in CellValues}
    \cup {Join(Truthies(hf)) : hf \in HFs \cup ObsHFs}

NormOf == [v \in CellValues \cup {Str(t) : t \in Texts} |-> normalize_text(v)]
Norm(v) == NormOf[v]

FloatOf == [v \in CellValues |-> get_float(v)]
Float(v) == FloatOf[v]

(***************************************************************************)
(* The worksheet.  A document is [name, ok, rows, hf]: ok says whether     *)
(* load_workbook succeeds, rows is the grid of cell values (rows of equal  *)
(* length), hf is the text of the print header/footer parts in the order   *)
(* scan_headers_footers reads them ("" for a part without text).           *)
(***************************************************************************)
NRows(sheet) == Len(sheet.rows)
NCols(sheet) == IF sheet.rows = <<>> THEN 0 ELSE Len(sheet.rows[1])

\* sheet.max_row / sheet.max_column of the workbook as loaded
LoadedMaxRow(sheet) == IF NRows(sheet) = 0 THEN 1 ELSE NRows(sheet)
LoadedMaxCol(sheet) == IF NCols(sheet) = 0 THEN 1 ELSE NCols(sheet)

\* sheet.cell(row=r, column=c).value: a cell outside the loaded grid is
\* created empty by openpyxl
Cell(sheet, r, c) ==
    IF r >= 1 /\ r <= NRows(sheet) /\ c >= 1 /\ c <= NCols(sheet)
    THEN sheet.rows[r][c] ELSE None


(***************************************************************************)
(* find_label_cell                                                         *)
(***************************************************************************)
LabelMaxRow == 150
LabelMaxCol == 50
NoCoord == <<0, 0>>

\* keywords_norm of line 66
NormList(keywords) == [k \in 1..Len(keywords) |-> normalize_text(Str(keywords[k]))]

\* lines 71-75 on a normalized cell text: it is not empty and holds a keyword
HoldsKeyword(keywords_norm, val) ==
    val # "" /\ \E k \in 1..Len(keywords_norm) : Contains(keywords_norm[k], val)

\* lines 70-75 on one cell
LabelHit(keywords, v) == HoldsKeyword(NormList(keywords), Norm(v))

HitsOf == [kw \in LabelSets |-> {v \in CellValues : LabelHit(kw, v)}]
IsLabel(keywords, v) == v \in HitsOf[keywords]

\* the cells <<row, column>> within max_row and max_col that match; rows and
\* columns past the loaded grid hold empty cells only
LabelCells(sheet, keywords) ==
    {rc \in (1..Min(LabelMaxRow, NRows(sheet))) \X (1..Min(LabelMaxCol, NCols(sheet))) :
        IsLabel(keywords, Cell(sheet, rc[1], rc[2]))}

\* Before for a walk down each column, the columns from left to right
Before_ColumnMajor(a, b) == a[2] < b[2] \/ (a[2] = b[2] /\ a[1] <= b[1])

\* a comes no later than b when the rows are walked downwards and each row
\* from its first column on
Before(a, b) == a[1] < b[1] \/ (a[1] = b[1] /\ a[2] <= b[2])

\* the first of the cells in that order, or None
FirstCell(cells) ==
    IF cells = {} THEN NoCoord ELSE CHOOSE a \in cells : \A b \in cells : Before(a, b)

\* iter_rows goes down the rows and along each row; the first matching cell is
\* returned
find_label_cell(sheet, keywords) == FirstCell(LabelCells(sheet, keywords))

(***************************************************************************)
(* extract_value_near_label                                                *)
(***************************************************************************)
DefaultMaxSteps == 10

\* the cell probed at `step` in `direction`
ProbeCell(sheet, label_row, label_col, direction, step) ==
    IF direction = "below" THEN Cell(sheet, label_row + step, label_col)
    ELSE Cell(sheet, label_row, label_col + step)

\* the test of lines 94-96 on val_norm: non-empty and not looking like another
\* label
QualifiesNorm(val_norm) ==
    val_norm # "" /\ ~(Contains("CLIENTE", val_norm) \/ Contains("FECHA", val_norm))

Qualifies(val) == QualifiesNorm(Norm(val))

QualOf == {v \in CellValues : Qualifies(v)}
IsValue(v) == v \in QualOf

\* the steps of one direction at which the probed cell qualifies
GoodSteps(sheet, label_row, label_col, direction, max_steps) ==
    {st \in 1..max_steps : IsValue(ProbeCell(sheet, label_row, label_col, direction, st))}

\* ExtractWith that looks to the right before it looks below
ExtractWith_RightFirst(sheet, label_row, label_col, look_down, look_right, good) ==
    IF look_right /\ good["right"] # {}
    THEN ProbeCell(sheet, label_row, label_col, "right", Least(good["right"]))
    ELSE IF look_down /\ good["below"] # {}
    THEN ProbeCell(sheet, label_row, label_col, "below", Least(good["below"]))
    ELSE None

\* the loops of lines 84-97, `good` giving the qualifying steps of each
\* direction: the first qualifying cell below, else the first to the right
ExtractWith(sheet, label_row, label_col, look_down, look_right, good) ==
    IF look_down /\ good["below"] # {}
    THEN ProbeCell(sheet, label_row, label_col, "below", Least(good["below"]))
    ELSE IF look_right /\ good["right"] # {}
    THEN ProbeCell(sheet, label_row, label_col, "right", Least(good["right"]))
    ELSE None

extract_value_near_label(sheet, label_row, label_col, look_down, look_right, max_steps) ==
    ExtractWith(sheet, label_row, label_col, look_down, look_right,
                [d \in {"below", "right"} |->
                    GoodSteps(sheet, label_row, label_col, d, max_steps)])

\* `extract_value_near_label(sheet, c[0], c[1]) if c else None`
ValueAt(sheet, c) ==
    IF c = NoCoord THEN None
    ELSE extract_value_near_label(sheet, c[1], c[2], TRUE, TRUE, DefaultMaxSteps)

\* ValueNear that falls back on the first cell of the sheet
ValueNear_Guess(sheet, keywords) ==
    LET c == find_label_cell(sheet, keywords)
    IN IF c = NoCoord THEN Cell(sheet, 1, 1)
       ELSE extract_value_near_label(sheet, c[1], c[2], TRUE, TRUE, DefaultMaxSteps)

\* the value near the first label of a keyword set, with the default arguments,
\* or None when there is no label
ValueNear(sheet, keywords) == ValueAt(sheet, find_label_cell(sheet, keywords))

\* sheet.cell() creates the cells it is asked for, so sheet.max_row grows to
\* the lowest row a scan has visited: the rows find_label_cell's iter_rows
\* walks (up to the row of the match, all of them without a match) ...
FindReach(c) == IF c = NoCoord THEN LabelMaxRow ELSE c[1]

\* ... and the rows extract_value_near_label probes below the label, `good`
\* being the qualifying steps below
ReachBelow(label_row, look_down, max_steps, good) ==
    IF ~look_down THEN label_row
    ELSE IF good # {} THEN label_row + Least(good)
    ELSE label_row + max_steps

ExtractReach(sheet, label_row, label_col, look_down, max_steps) ==
    ReachBelow(label_row, look_down, max_steps,
               GoodSteps(sheet, label_row, label_col, "below", max_steps))

\* the lowest row visited by a lookup whose label is at c (None: no label)
ReachAt(sheet, c) ==
    IF c = NoCoord THEN FindReach(c)
    ELSE Max(FindReach(c), ExtractReach(sheet, c[1], c[2], TRUE, DefaultMaxSteps))

\* the lowest row visited by `find_label_cell(...)` followed, on a match, by
\* extract_value_near_label with the default arguments
ValueNearReach(sheet, keywords) == ReachAt(sheet, find_label_cell(sheet, keywords))

(***************************************************************************)
(* scan_headers_footers and get_all_sheet_text                             *)
(***************************************************************************)
\* a string value or None
scan_headers_footers(sheet) ==
    LET texts == Truthies(sheet.hf)
    IN IF texts # <<>> THEN Str(Join(texts)) ELSE None

DebugMaxRow == 200
DebugMaxCol == 30

RECURSIVE RowTexts(_, _, _)
\* the "Valor" column for the cells of row r from column c on
RowTexts(sheet, r, c) ==
    IF c >= Min(LoadedMaxCol(sheet) + 1, DebugMaxCol) THEN <<>>
    ELSE (IF Truthy(Cell(sheet, r, c)) THEN <<PyStr(Cell(sheet, r, c))>> ELSE <<>>)
         \o RowTexts(sheet, r, c + 1)

RECURSIVE CellTexts(_, _, _)
\* the same for the rows lo..hi, top to bottom
CellTexts(sheet, lo, hi) ==
    IF lo > hi THEN <<>>
    ELSE IF lo = hi THEN RowTexts(sheet, lo, 1)
    ELSE CellTexts(sheet, lo, (lo + hi) \div 2) \o CellTexts(sheet, (lo + hi) \div 2 + 1, hi)

\* the "Valor" column of the data frame: the cells, then the header/footer text
get_all_sheet_text(sheet) ==
    LET hf_text == scan_headers_footers(sheet)
    IN CellTexts(sheet, 1, Min(LoadedMaxRow(sheet) + 1, DebugMaxRow) - 1)
       \o (IF Truthy(hf_text) THEN <<hf_text.s>> ELSE <<>>)

(***************************************************************************)
(* process_file, header fields (lines 182-278)                             *)
(***************************************************************************)
\* the keywords of the three date components (lines 190-192)
DatePartKeywords == [y |-> kw_year, m |-> kw_month, d |-> kw_day]

\* val_y, val_m, val_d
DateParts(sheet) ==
    [y |-> ValueNear(sheet, DatePartKeywords["y"]),
     m |-> ValueNear(sheet, DatePartKeywords["m"]),
     d |-> ValueNear(sheet, DatePartKeywords["d"])]

\* `val_y and val_m and val_d`
PartsResolve(p) == Truthy(p.y) /\ Truthy(p.m) /\ Truthy(p.d)

AllPartsResolve(sheet) == PartsResolve(DateParts(sheet))

\* f"{val_d}/{m_num}/{val_y}"
AssembleDate(val_d, val_m, val_y) ==
    Str(PyStr(val_d) \o "/" \o PyStr(parse_month(PyStr(val_m))) \o "/" \o PyStr(val_y))

\* lines 206-209 on the value found near the label
FormatDate(raw_date) ==
    IF raw_date.t = "datetime" THEN Str(Strftime(raw_date)) ELSE raw_date

\* lines 202-211: the single FECHA/DATE label; None without a label
FallbackDate(sheet) == FormatDate(ValueNear(sheet, kw_fecha))

\* lines 199-211 on the three components and the value of the else branch
FechaOf(p, fallback) ==
    IF PartsResolve(p) THEN AssembleDate(p.d, p.m, p.y) ELSE fallback

\* lines 190-211
Fecha(sheet) == FechaOf(DateParts(sheet), FallbackDate(sheet))

\* the rescue test of line 221 on one text of the data frame
IsRescue(valor) ==
    \E i \in 1..Len(rescue_phrases) : Contains(rescue_phrases[i], Norm(Str(valor)))

RescueTexts == {t \in Texts : IsRescue(t)}
HasRescue(valor) == valor \in RescueTexts

\* the text at the first of the positions hits, or None
FirstText(debug_df, hits) == IF hits = {} THEN None ELSE Str(debug_df[Least(hits)])

\* lines 214-223: the first text with a rescue phrase, or None
RescueScan(debug_df) ==
    FirstText(debug_df, {i \in 1..Len(debug_df) : HasRescue(debug_df[i])})

\* CondicionOf that asks the labels first and the rescue scan last
CondicionOf_LabelsFirst(sheet, condicion_found, lbl_coords, lbl_flete) ==
    IF lbl_coords # NoCoord THEN ValueAt(sheet, lbl_coords)
    ELSE IF lbl_flete # NoCoord THEN ValueAt(sheet, lbl_flete)
    ELSE condicion_found

\* lines 225-238 on the outcome of the rescue scan and the two label searches
CondicionOf(sheet, condicion_found, lbl_coords, lbl_flete) ==
    IF Truthy(condicion_found) THEN condicion_found
    ELSE IF lbl_coords # NoCoord THEN ValueAt(sheet, lbl_coords)
    ELSE IF lbl_flete # NoCoord THEN ValueAt(sheet, lbl_flete)
    ELSE None

\* lines 214-238
CondicionVenta(sheet, debug_df) ==
    CondicionOf(sheet, RescueScan(debug_df), find_label_cell(sheet, kw_cond_strong),
                find_label_cell(sheet, kw_cond_weak))

\* a character of \w
IsWordChar(c) ==
    \/ IsDigit(c) \/ c = "_"
    \/ \E i \in 1..Len(UpperAlpha) : Ch(UpperAlpha, i) = c \/ Ch(LowerAlpha, i) = c

\* re.search(rf"\b{inc}\b", v_norm)
WordIn(inc, v_norm) ==
    \E i \in 1..(Len(v_norm) - Len(inc) + 1) :
        /\ SubSeq(v_norm, i, i + Len(inc) - 1) = inc
        /\ (i = 1 \/ ~IsWordChar(Ch(v_norm, i - 1)))
        /\ (i + Len(inc) > Len(v_norm) \/ ~IsWordChar(Ch(v_norm, i + Len(inc))))

\* the codes of incoterm_list, by position, that line 268 finds in v_norm
IncotermHits(v_norm) == {i \in 1..Len(incoterm_list) : WordIn(incoterm_list[i], v_norm)}

\* the keys of currency_map, by position, that line 273 finds in v_norm
MonedaHits(v_norm) == {i \in 1..Len(currency_map) : Contains(currency_map[i][1], v_norm)}

\* the inner loops have no break, so the last code found in the text stays;
\* None when the text holds no code
LastIncoterm(hits) == IF hits = {} THEN None ELSE Str(incoterm_list[Greatest(hits)])
LastMoneda(hits) == IF hits = {} THEN None ELSE Str(currency_map[Greatest(hits)][2])

\* lines 267-269 on one text
IncotermIn(valor) == LastIncoterm(IncotermHits(Norm(Str(valor))))

\* lines 272-275 on one text
MonedaIn(valor) == LastMoneda(MonedaHits(Norm(Str(valor))))

IncotermOf == [t \in Texts |-> IncotermIn(t)]
MonedaOf == [t \in Texts |-> MonedaIn(t)]
IncotermAt(valor) == IncotermOf[valor]
MonedaAt(valor) == MonedaOf[valor]

\* the positions of a list of codes at which a code was found
CodeHits(codes, n) == {i \in 1..n : Truthy(codes[i])}

\* a text is examined only while detected_codes[...] is empty, so the first
\* text holding a code decides
FirstCode(codes, hits) == IF hits = {} THEN None ELSE codes[Least(hits)]

\* every text examined: the last one holding a code decides
LastCode(codes, hits) == IF hits = {} THEN None ELSE codes[Greatest(hits)]

\* what lines 267-269 find in each text of the data frame
IncotermsOf(debug_df) == [i \in 1..Len(debug_df) |-> IncotermAt(debug_df[i])]

\* what lines 272-275 find in each text of the data frame
MonedasOf(debug_df) == [i \in 1..Len(debug_df) |-> MonedaAt(debug_df[i])]

\* ScanIncoterm without the guard of line 267
ScanIncoterm_LastWins(debug_df) ==
    LastCode(IncotermsOf(debug_df), CodeHits(IncotermsOf(debug_df), Len(debug_df)))

\* the global scan of lines 262-269
ScanIncoterm(debug_df) ==
    FirstCode(IncotermsOf(debug_df), CodeHits(IncotermsOf(debug_df), Len(debug_df)))

\* lines 262-275 for detected_codes['Moneda']
ScanMoneda(debug_df) ==
    FirstCode(MonedasOf(debug_df), CodeHits(MonedasOf(debug_df), Len(debug_df)))

\* the keywords of the fields resolved by one label lookup (lines 182-187,
\* 241-259)
LabelFields ==
    [Cliente |-> kw_cliente, Num_Exp |-> kw_exp, Forma_Pago |-> kw_pago,
     Puerto_Emb |-> kw_emb, Puerto_Dest |-> kw_dest, Tipo_Cambio |-> kw_tc]

\* `extract_value_near_label(...) if lbl_coords else None` for each of them
LabelValues(sheet) == [f \in DOMAIN LabelFields |-> ValueNear(sheet, LabelFields[f])]

\* header_data after line 278, by_label holding the fields of LabelFields
HeaderOf(sheet, debug_df, by_label) ==
    [Cliente |-> by_label["Cliente"],
     Num_Exp |-> by_label["Num_Exp"],
     Fecha |-> Fecha(sheet),
     Condicion_Venta |-> CondicionVenta(sheet, debug_df),
     Forma_Pago |-> by_label["Forma_Pago"],
     Puerto_Emb |-> by_label["Puerto_Emb"],
     Puerto_Dest |-> by_label["Puerto_Dest"],
     Tipo_Cambio |-> by_label["Tipo_Cambio"],
     Moneda |-> ScanMoneda(debug_df),
     Incoterm |-> ScanIncoterm(debug_df)]

\* lines 180-278
HeaderData(sheet) == HeaderOf(sheet, get_all_sheet_text(sheet), LabelValues(sheet))

\* the keyword sets looked up by lines 182-259, those of the branches not taken
\* left out
HeaderLookups(sheet) ==
    <<kw_cliente, kw_exp, kw_year, kw_month, kw_day>>
    \o (IF AllPartsResolve(sheet) THEN <<>> ELSE <<kw_fecha>>)
    \o (IF Truthy(RescueScan(get_all_sheet_text(sheet))) THEN <<>>
        ELSE IF find_label_cell(sheet, kw_cond_strong) # NoCoord THEN <<kw_cond_strong>>
        ELSE <<kw_cond_strong, kw_cond_weak>>)
    \o <<kw_pago, kw_emb, kw_dest, kw_tc>>

RECURSIVE MaxReach(_, _)
MaxReach(sheet, lookups) ==
    IF lookups = <<>> THEN 0
    ELSE Max(ValueNearReach(sheet, Head(lookups)), MaxReach(sheet, Tail(lookups)))

\* sheet.max_row after line 278
MaxRowAfterHeader(sheet) == Max(LoadedMaxRow(sheet), MaxReach(sheet, HeaderLookups(sheet)))

(***************************************************************************)
(* process_file, product table (lines 280-349)                             *)
(***************************************************************************)
HeaderSearchRows == 100
HeaderSearchCols == 30
DefaultLastRow == 20
Patience == 15

\* any(k in t for k in kw)
AnyIn(kw, t) == \E k \in 1..Len(kw) : Contains(kw[k], t)

\* {**a, **b}: the keys of b win
Merge(a, b) == b @@ a

\* line 299: the row holds a description heading and a quantity heading
IsHeaderRow(sheet, r) ==
    /\ \E c \in 1..Min(HeaderSearchCols - 1, NCols(sheet)) :
           AnyIn(kw_desc, Norm(Cell(sheet, r, c)))
    /\ \E c \in 1..Min(HeaderSearchCols - 1, NCols(sheet)) :
           AnyIn(kw_qty, Norm(Cell(sheet, r, c)))

\* lines 302-307 on one cell of the header row
MapColumn(cmap, c, v) ==
    IF v = "" THEN cmap
    ELSE IF AnyIn(kw_desc, v) THEN Merge(cmap, "Descripcion" :> c)
    ELSE IF AnyIn(kw_qty, v) THEN Merge(cmap, "Cantidad" :> c)
    ELSE IF AnyIn(kw_price, v) THEN Merge(cmap, "Precio Unitario" :> c)
    ELSE IF AnyIn(kw_total, v) /\ ~Contains("TOTAL CASES", v) /\ ~Contains("FOB", v)
         THEN Merge(cmap, "Total Linea" :> c)
    ELSE cmap

RECURSIVE MapColumnsFrom(_, _, _, _)
\* the loop of line 301 from column c on; columns past the grid are empty
MapColumnsFrom(sheet, r, c, cmap) ==
    IF c > Min(HeaderSearchCols - 1, NCols(sheet)) THEN cmap
    ELSE MapColumnsFrom(sheet, r, c + 1,
                        MapColumn(cmap, c, Norm(Cell(sheet, r, c))))

RECURSIVE HeaderRowFrom(_, _)
\* the loop of line 292 from row r on: the first header row, or 0 (None);
\* rows past the loaded grid hold empty cells only
HeaderRowFrom(sheet, r) ==
    IF r > Min(HeaderSearchRows - 1, NRows(sheet)) THEN 0
    ELSE IF IsHeaderRow(sheet, r) THEN r
    ELSE HeaderRowFrom(sheet, r + 1)

FindHeaderRow(sheet) == HeaderRowFrom(sheet, 1)

ColMap(sheet) ==
    IF FindHeaderRow(sheet) = 0 THEN <<>>
    ELSE MapColumnsFrom(sheet, FindHeaderRow(sheet), 1, <<>>)

\* sheet.max_row after the header search, which asks for every cell of the
\* rows it visits
MaxRowAfterSearch(sheet, mrow) ==
    Max(mrow, IF FindHeaderRow(sheet) = 0 THEN HeaderSearchRows - 1
                 ELSE FindHeaderRow(sheet))

\* sheet.cell(row=curr, column=col_map[key]).value if key in col_map else 0
Mapped(sheet, cmap, key, row) ==
    IF key \in DOMAIN cmap THEN Cell(sheet, row, cmap[key]) ELSE Num(0)

\* IsStopRow that asks for the bare word
IsStopRow_Exact(desc_norm) == desc_norm = "TOTAL"

\* line 318: the criterion that stops the table
IsStopRow(desc_norm) == StartsWith(desc_norm, "TOTAL")

\* Accepts that lets a price of zero through
Accepts_ZeroPrice(p_num, desc_norm) ==
    p_num >= 0 /\ desc_norm # "" /\ ~Contains("TOTAL", desc_norm)

\* line 331: FILTRO ROBUSTO
Accepts(p_num, desc_norm) == p_num > 0 /\ desc_norm # "" /\ ~Contains("TOTAL", desc_norm)

\* line 336
LineTotal(q_num, p_num, t_num) == IF t_num > 0 THEN t_num ELSE Times(q_num, p_num)

\* lines 332-337
Product(sheet, cmap, row) ==
    LET q_num == Float(Mapped(sheet, cmap, "Cantidad", row))
        p_num == Float(Mapped(sheet, cmap, "Precio Unitario", row))
        t_num == Float(Mapped(sheet, cmap, "Total Linea", row))
    IN ("Descripcion" :> Cell(sheet, row, cmap["Descripcion"]))
       @@ ("Cantidad" :> q_num) @@ ("Precio Unitario" :> p_num)
       @@ ("Total Linea" :> LineTotal(q_num, p_num, t_num))

\* the streak after a row that is not accepted (lines 342-343)
StreakAfterReject(streak0, desc_norm) ==
    IF desc_norm = "" THEN streak0 + 1 ELSE streak0

\* LoopStep whose `curr += 1` stands inside `if not desc_norm:`, so that a
\* rejected row with a description is read again
LoopStep_NoAdvance(sheet, cmap, mrow, L) ==
    LET desc_val == Cell(sheet, L.curr, cmap["Descripcion"])
        desc_norm == Norm(desc_val)
        p_num == Float(Mapped(sheet, cmap, "Precio Unitario", L.curr))
        streak == StreakAfterReject(L.empty_streak, desc_norm)
    IN IF ~(L.curr <= mrow) THEN [L EXCEPT !.ended = "max_row"]
       ELSE IF IsStopRow(desc_norm)
            THEN [L EXCEPT !.last_row_table = L.curr, !.ended = "stop"]
       ELSE IF Accepts(p_num, desc_norm)
            THEN [L EXCEPT !.products = Append(@, Product(sheet, cmap, L.curr)),
                           !.empty_streak = 0,
                           !.last_row_table = L.curr,
                           !.curr = @ + 1]
       ELSE IF desc_norm = "" /\ streak > Patience
            THEN [L EXCEPT !.empty_streak = streak,
                           !.last_row_table = L.curr - Patience,
                           !.ended = "patience"]
       ELSE IF desc_norm = "" THEN [L EXCEPT !.empty_streak = streak, !.curr = @ + 1]
       ELSE L

\* One pass of the while loop of line 313 on the loop state
\* [curr, empty_streak, products, last_row_table, ended]: `ended` is "" while the
\* loop runs and names the way it ended afterwards.
LoopStep(sheet, cmap, mrow, L) ==
    LET desc_val == Cell(sheet, L.curr, cmap["Descripcion"])
        desc_norm == Norm(desc_val)
        p_num == Float(Mapped(sheet, cmap, "Precio Unitario", L.curr))
        streak == StreakAfterReject(L.empty_streak, desc_norm)
    IN IF ~(L.curr <= mrow) THEN [L EXCEPT !.ended = "max_row"]
       ELSE IF IsStopRow(desc_norm)
            THEN [L EXCEPT !.last_row_table = L.curr, !.ended = "stop"]
       ELSE IF Accepts(p_num, desc_norm)
            THEN [L EXCEPT !.products = Append(@, Product(sheet, cmap, L.curr)),
                           !.empty_streak = 0,
                           !.last_row_table = L.curr,
                           !.curr = @ + 1]
       ELSE IF desc_norm = "" /\ streak > Patience
            THEN [L EXCEPT !.empty_streak = streak,
                           !.last_row_table = L.curr - Patience,
                           !.ended = "patience"]
       ELSE [L EXCEPT !.empty_streak = streak, !.curr = @ + 1]

\* the loop state at line 311-312, or at line 349 when there is no table
LoopStart(hrow, cmap) ==
    IF hrow # 0 /\ "Descripcion" \in DOMAIN cmap
    THEN [curr |-> hrow + 1, empty_streak |-> 0, products |-> <<>>,
          last_row_table |-> DefaultLastRow, ended |-> ""]
    ELSE [curr |-> 0, empty_streak |-> 0, products |-> <<>>,
          last_row_table |-> DefaultLastRow, ended |-> "no_table"]

RECURSIVE RunLoop(_, _, _, _)
\* the while loop run to its end
RunLoop(sheet, cmap, mrow, L) ==
    IF L.ended # "" THEN L ELSE RunLoop(sheet, cmap, mrow, LoopStep(sheet, cmap, mrow, L))

(***************************************************************************)
(* find_longest_text_in_footer and the observations (lines 351-369)        *)
(***************************************************************************)
FooterRows == 50
FooterCols == 25
MinLength == 20

\* val of line 129
FooterVal(v) == IF Truthy(v) THEN Strip(PyStr(v)) ELSE ""

\* lines 133-136 on one cell: no stop marker and longer than min_length
FooterCandidate(v) ==
    LET val == FooterVal(v)
    IN ~AnyIn(footer_stop_markers, Norm(Str(val))) /\ Len(val) > MinLength

FooterOf == {v \in CellValues : FooterCandidate(v)}
IsFooterText(v) == IF v \in CellValues THEN v \in FooterOf ELSE FooterCandidate(v)

\* the cells the two loops visit that are candidates; rows and columns past the
\* loaded grid hold empty cells only
FooterCells(sheet, start_row, mrow) ==
    {rc \in (start_row..Min(Min(start_row + FooterRows, mrow + 1) - 1, NRows(sheet)))
            \X (1..Min(FooterCols - 1, NCols(sheet))) :
        IsFooterText(Cell(sheet, rc[1], rc[2]))}

\* the length line 134 compares with max_len
FooterLen(sheet, rc) == Len(FooterVal(Cell(sheet, rc[1], rc[2])))

\* LongestOf that keeps the first candidate met, whatever its length
LongestOf_First(sheet, cells) == FirstCell(cells)

\* max_len only moves on a strictly longer text, so the first of the longest
\* candidates, in the order of the loops, is kept
LongestOf(sheet, cells) ==
    FirstCell({rc \in cells : \A o \in cells : FooterLen(sheet, o) <= FooterLen(sheet, rc)})

\* best_text for the candidate cells; None without a candidate
FooterText(sheet, cells) ==
    IF cells = {} THEN None
    ELSE Str(FooterVal(Cell(sheet, LongestOf(sheet, cells)[1], LongestOf(sheet, cells)[2])))

find_longest_text_in_footer(sheet, start_row, mrow) ==
    FooterText(sheet, FooterCells(sheet, start_row, mrow))

\* lines 362-369 on the value found near the label
ObsAfterLabel(sheet, by_label, start_row, row_now) ==
    IF ~Truthy(by_label) THEN find_longest_text_in_footer(sheet, start_row, row_now)
    ELSE by_label

\* lines 365-367 on the outcome of the footer search and the print header text
ObsAfterFooter(by_footer, hf) ==
    IF ~Truthy(by_footer) /\ Truthy(hf) /\ Len(hf.s) > MinLength THEN hf ELSE by_footer

\* lines 351-369
Observaciones(sheet, last_row, mrow) ==
    ObsAfterFooter(ObsAfterLabel(sheet, ValueNear(sheet, kw_obs), last_row + 1,
                                 Max(mrow, ValueNearReach(sheet, kw_obs))),
                   scan_headers_footers(sheet))

(***************************************************************************)
(* process_file, unification (lines 371-379)                               *)
(***************************************************************************)
\* Record with the product's description stored under a header key
Record_Overwrite(name, hdata, p) ==
    Merge(Merge("Archivo" :> Str(name), hdata), p @@ ("Observaciones" :> p["Descripcion"]))

\* {'Archivo': uploaded_file.name, **header_data, **p}
Record(name, hdata, p) == Merge(Merge("Archivo" :> Str(name), hdata), p)

\* lines 374-375
RecordsOf(name, hdata, prods) == [i \in 1..Len(prods) |-> Record(name, hdata, prods[i])]

\* FinalRows without the else branch of line 376
FinalRows_NoElse(name, hdata, prods) == RecordsOf(name, hdata, prods)

FinalRows(name, hdata, prods) ==
    IF prods # <<>> THEN RecordsOf(name, hdata, prods)
    ELSE <<Merge("Archivo" :> Str(name), hdata)>>

(***************************************************************************)
(* process_file as a whole (lines 167-379) on a document that loads: the   *)
(* rows it returns                                                         *)
(***************************************************************************)
process_file(doc) ==
    LET hdata == HeaderData(doc)
        hrow == FindHeaderRow(doc)
        cmap == ColMap(doc)
        mrow == MaxRowAfterSearch(doc, MaxRowAfterHeader(doc))
        L == RunLoop(doc, cmap, mrow, LoopStart(hrow, cmap))
        obs == Observaciones(doc, L.last_row_table, mrow)
    IN FinalRows(doc.name, Merge(hdata, "Observaciones" :> obs), L.products)

(***************************************************************************)
(* Actions                                                                 *)
(***************************************************************************)
file == uploaded_files[file_idx]
active == uploaded_files[file_idx]

ErrText == "Error leyendo Excel: "

locals == <<max_row, header_data, col_map, header_row, products, curr, empty_streak,
            last_row_table, ended>>

\* LoadFails where the failure ends the batch
LoadFails_Abort ==
    /\ pc = "next_file"
    /\ file_idx <= Len(uploaded_files)
    /\ ~file.ok
    /\ returned' = Append(returned, [rows |-> <<>>, err |-> Str(ErrText \o file.name)])
    /\ errors' = Append(errors, <<file.name, ErrText \o file.name>>)
    /\ file_idx' = Len(uploaded_files) + 1
    /\ UNCHANGED <<uploaded_files, pc, all_data, locals>>

\* lines 399-407 with a file load_workbook cannot read: process_file returns
\* [], the message (line 172); nothing is collected and the error is shown
LoadFails ==
    /\ pc = "next_file"
    /\ file_idx <= Len(uploaded_files)
    /\ ~file.ok
    /\ returned' = Append(returned, [rows |-> <<>>, err |-> Str(ErrText \o file.name)])
    /\ errors' = Append(errors, <<file.name, ErrText \o file.name>>)
    /\ file_idx' = file_idx + 1
    /\ UNCHANGED <<uploaded_files, pc, all_data, locals>>

\* lines 168-180: the workbook opens
Load ==
    /\ pc = "next_file"
    /\ file_idx <= Len(uploaded_files)
    /\ file.ok
    /\ max_row' = LoadedMaxRow(active)
    /\ header_data' = <<>>
    /\ pc' = "header"
    /\ UNCHANGED <<uploaded_files, file_idx, col_map, header_row, products, curr,
                   empty_streak, last_row_table, ended, returned, all_data, errors>>

\* lines 182-278
ExtractHeader ==
    /\ pc = "header"
    /\ header_data' = HeaderData(active)
    /\ max_row' = MaxRowAfterHeader(active)
    /\ pc' = "table"
    /\ UNCHANGED <<uploaded_files, file_idx, col_map, header_row, products, curr,
                   empty_streak, last_row_table, ended, returned, all_data, errors>>

\* lines 280-312, 348-349
FindTable ==
    /\ pc = "table"
    /\ header_row' = FindHeaderRow(active)
    /\ col_map' = ColMap(active)
    /\ max_row' = MaxRowAfterSearch(active, max_row)
    /\ LET L == LoopStart(FindHeaderRow(active), ColMap(active))
       IN /\ products' = L.products
          /\ curr' = L.curr
          /\ empty_streak' = L.empty_streak
          /\ last_row_table' = L.last_row_table
          /\ ended' = L.ended
          /\ pc' = IF L.ended = "" THEN "loop" ELSE "obs"
    /\ UNCHANGED <<uploaded_files, file_idx, header_data, returned, all_data, errors>>

\* one pass of the while loop of lines 313-347, the test of its condition included
StreamRow ==
    /\ pc = "loop"
    /\ LET L == LoopStep(active, col_map, max_row,
                         [curr |-> curr, empty_streak |-> empty_streak,
                          products |-> products, last_row_table |-> last_row_table,
                          ended |-> ended])
       IN /\ products' = L.products
          /\ curr' = L.curr
          /\ empty_streak' = L.empty_streak
          /\ last_row_table' = L.last_row_table
          /\ ended' = L.ended
          /\ pc' = IF L.ended = "" THEN "loop" ELSE "obs"
    /\ UNCHANGED <<uploaded_files, file_idx, max_row, header_data, col_map, header_row,
                   returned, all_data, errors>>

\* lines 351-369
ExtractObservaciones ==
    /\ pc = "obs"
    /\ header_data' = Merge(header_data,
                            "Observaciones" :> Observaciones(active, last_row_table, max_row))
    /\ max_row' = Max(max_row, ValueNearReach(active, kw_obs))
    /\ pc' = "unify"
    /\ UNCHANGED <<uploaded_files, file_idx, col_map, header_row, products, curr,
                   empty_streak, last_row_table, ended, returned, all_data, errors>>

\* lines 371-379, and lines 400-407 of the batch loop on what is returned
Unify ==
    /\ pc = "unify"
    /\ LET final_rows == FinalRows(file.name, header_data, products)
       IN /\ returned' = Append(returned, [rows |-> final_rows, err |-> None])
          /\ all_data' = IF final_rows # <<>> THEN all_data \o final_rows ELSE all_data
    /\ file_idx' = file_idx + 1
    /\ pc' = "next_file"
    /\ UNCHANGED <<uploaded_files, locals, errors>>

Next ==
    \/ LoadFails
    \/ Load
    \/ ExtractHeader
    \/ FindTable
    \/ StreamRow
    \/ ExtractObservaciones
    \/ Unify

\* the state when "Procesar Archivos" is pressed on the batch `files`
Start(files) ==
    /\ uploaded_files = files
    /\ file_idx = 1
    /\ pc = "next_file"
    /\ max_row = 0
    /\ header_data = <<>>
    /\ col_map = <<>>
    /\ header_row = 0
    /\ products = <<>>
    /\ curr = 0
    /\ empty_streak = 0
    /\ last_row_table = DefaultLastRow
    /\ ended = ""
    /\ returned = <<>>
    /\ all_data = <<>>
    /\ errors = <<>>

(***************************************************************************)
(* Documents the model is run on                                           *)
(***************************************************************************)
\* --- tables: a header row and a body of at most MaxSegs runs of rows
MaxSegs == 3

Run(row, n) == [i \in 1..n |-> row]

Segments ==
    {Run(RowBlank, n) : n \in {1, Patience, Patience + 1}}
    \cup {Run(r, 1) : r \in TableRows \ {RowBlank}}

RECURSIVE Bodies(_)
Bodies(n) ==
    IF n = 0 THEN {<<>>}
    ELSE Bodies(n - 1) \cup {b \o g : b \in Bodies(n - 1), g \in Segments}

TableDocs == {Doc("tabla.xlsx", <<h>> \o b, NoHF) : h \in TableHeads, b \in Bodies(MaxSegs)}

\* --- header blocks: grids of MaxCols columns, each a cell with the cell below it
MaxCols == 3

RECURSIVE Grids(_, _)
\* the two-row grids of n columns drawn from cols
Grids(cols, n) ==
    IF n = 0 THEN {<< <<>>, <<>> >>}
    ELSE {<<Append(g[1], c[1]), Append(g[2], c[2])>> : g \in Grids(cols, n - 1), c \in cols}

SampleTable ==
    Doc("muestra.xlsx",
        << <<Str("Descripci]n"), Str("Cantidad"), Str("Precio Unit."), Str("Total")>>,
           RowWidgetB, RowWidgetA, RowBlank, RowWidgetC, RowTotal, RowWidgetB, RowNote >>,
        NoHF)

DateDocs == {Doc("fecha.xlsx", g, NoHF) : g \in Grids(DateColumns, MaxCols)}
CodeDocs == {Doc("codigos.xlsx", g, hf) : g \in Grids(CodeColumns, MaxCols), hf \in HFs}

\* --- batches
MaxBatch == 3

\* a table none of whose rows is accepted, scanned until the patience runs out
SampleNoProducts ==
    Doc("sin_productos.xlsx",
        << <<Str("DESCRIPTION"), Str("QTTY"), Str("PRICE"), Str("Lote")>>,
           RowWidgetA, RowSubTotal >>,
        NoHF)

SampleDocs ==
    { BrokenDoc, SampleTable, SampleNoProducts,
      Doc("vacio.xlsx", <<>>, NoHF),
      Doc("fecha.xlsx", << <<Str("Fecha"), Str("TOTAL FOB")>>, <<Date(2024, 3, 5), None>> >>, NoHF) }

RECURSIVE Batches(_)
Batches(n) ==
    IF n = 0 THEN {<<>>}
    ELSE Batches(n - 1) \cup {Append(b, d) : b \in Batches(n - 1), d \in SampleDocs}

\* --- label blocks: grids of MaxCols columns of three cells each
RECURSIVE Grids3(_, _)
Grids3(cols, n) ==
    IF n = 0 THEN {<< <<>>, <<>>, <<>> >>}
    ELSE {<<Append(g[1], c[1]), Append(g[2], c[2]), Append(g[3], c[3])>> :
              g \in Grids3(cols, n - 1), c \in cols}

LabelDocs == {Doc("etiquetas.xlsx", g, hf) : g \in Grids3(LabelColumns, MaxCols), hf \in HFs}

\* --- observations: no table, a table left open or a table closed by a totals
\* row, then at most MaxFoot rows below it
MaxFoot == 2

RECURSIVE Footers(_)
Footers(n) ==
    IF n = 0 THEN {<<>>}
    ELSE Footers(n - 1) \cup {Append(b, r) : b \in Footers(n - 1), r \in FooterLines}

ObsTables ==
    { <<>>,
      << <<Str("DESCRIPTION"), Str("QTTY"), Str("PRICE"), Str("Lote")>>, RowWidgetB >>,
      << <<Str("DESCRIPTION"), Str("QTTY"), Str("PRICE"), Str("Lote")>>, RowWidgetB, RowTotal >> }

ObsDocs ==
    {Doc("observaciones.xlsx", t \o f, hf) : t \in ObsTables, f \in Footers(MaxFoot), hf \in ObsHFs}

\* --- a table that fills the sheet down to the last row the label lookups reach
LongTable ==
    Doc("larga.xlsx",
        << <<Str("DESCRIPTION"), Str("QTTY"), Str("PRICE"), Str("Lote")>> >>
            \o Run(RowWidgetB, LabelMaxRow - 1),
        NoHF)

(***************************************************************************)
(* Specifications                                                          *)
(***************************************************************************)
\* batches of sample documents
Init == \E files \in Batches(MaxBatch) : Start(files)
Spec == Init /\ [][Next]_vars

\* one document with a product table
InitTable == \E d \in TableDocs \cup {BrokenDoc} : Start(<<d>>)
SpecTable == InitTable /\ [][Next]_vars

\* one document with date labels
InitDate == \E d \in DateDocs \cup {BrokenDoc, SampleTable} : Start(<<d>>)
SpecDate == InitDate /\ [][Next]_vars

\* one document with codes, rescue phrases and labels
InitCodes == \E d \in CodeDocs \cup {BrokenDoc, SampleTable} : Start(<<d>>)
SpecCodes == InitCodes /\ [][Next]_vars

\* one document with labels in two rows and values below or beside them
InitLabels == \E d \in LabelDocs \cup {BrokenDoc, SampleTable} : Start(<<d>>)
SpecLabels == InitLabels /\ [][Next]_vars

\* one document with rows below its table and print header/footer text
InitObs == \E d \in ObsDocs \cup {BrokenDoc} : Start(<<d>>)
SpecObs == InitObs /\ [][Next]_vars

\* one document with a product table; the interpreter runs the while loop on
\* without pausing, so a pass of the loop that can be taken is taken
InitLoop == \E d \in TableDocs \cup {BrokenDoc, LongTable} : Start(<<d>>)
SpecLoop == InitLoop /\ [][Next]_vars /\ WF_vars(StreamRow)

(***************************************************************************)
(* Properties                                                              *)
(***************************************************************************)
ProductKeys == {"Descripcion", "Cantidad", "Precio Unitario", "Total Linea"}
HeaderKeys ==
    {"Archivo", "Cliente", "Num_Exp", "Fecha", "Condicion_Venta", "Forma_Pago", "Puerto_Emb",
     "Puerto_Dest", "Tipo_Cambio", "Moneda", "Incoterm", "Observaciones"}

\* the call of process_file that returned last, when its locals are still there
JustReturned ==
    pc = "next_file" /\ returned # <<>> /\ uploaded_files[Len(returned)].ok

LastRows == returned[Len(returned)].rows
IsHeaderOnly(rec) == DOMAIN rec \cap ProductKeys = {}

\* C1: a document that loads yields at least one record: one per accepted
\* product row when there are products, and exactly one record without product
\* fields when no header row was found or no row was accepted.
C1_NeverZeroRecords ==
    /\ \A i \in 1..Len(returned) : uploaded_files[i].ok => Len(returned[i].rows) >= 1
    /\ JustReturned =>
         /\ products # <<>> =>
              /\ Len(LastRows) = Len(products)
              /\ \A i \in 1..Len(products) : \A k \in ProductKeys :
                     LastRows[i][k] = products[i][k]
         /\ (header_row = 0 \/ products = <<>>) =>
              Len(LastRows) = 1 /\ IsHeaderOnly(LastRows[1])

\* a batch in which one document gave a header-only record with no header row,
\* one a header-only record with a header row, and one a record per product
C1_Witness ==
    /\ JustReturned
    /\ header_row # 0 /\ products = <<>> /\ Len(LastRows) = 1
    /\ \E i \in 1..Len(returned) : Len(returned[i].rows) >= 2
    /\ \E i \in 1..Len(returned) :
           uploaded_files[i].ok /\ FindHeaderRow(uploaded_files[i]) = 0
           /\ Len(returned[i].rows) = 1

\* C2: the records of one call agree on every header field, carry the header
\* fields as process_file resolved them, and hold nothing but header fields and
\* the four product fields.
C2_SharedHeader ==
    /\ \A i \in 1..Len(returned) : \A a, b \in 1..Len(returned[i].rows) :
         /\ HeaderKeys \subseteq DOMAIN returned[i].rows[a]
         /\ DOMAIN returned[i].rows[a] \subseteq HeaderKeys \cup ProductKeys
         /\ \A k \in HeaderKeys : returned[i].rows[a][k] = returned[i].rows[b][k]
    /\ JustReturned =>
         \A a \in 1..Len(LastRows) :
             /\ LastRows[a]["Archivo"] = Str(uploaded_files[Len(returned)].name)
             /\ \A k \in HeaderKeys \ {"Archivo"} : LastRows[a][k] = header_data[k]

\* a call that returned two records with different descriptions and a header
\* field that is not empty
C2_Witness ==
    /\ JustReturned
    /\ Len(LastRows) >= 2
    /\ LastRows[1]["Descripcion"] # LastRows[2]["Descripcion"]
    /\ Truthy(LastRows[1]["Observaciones"])

\* what a document contributes when it is processed alone
Alone(doc) == IF doc.ok THEN process_file(doc) ELSE <<>>

RECURSIVE Contributions(_, _)
\* the records of the first n documents of a batch, each processed alone
Contributions(files, n) ==
    IF n = 0 THEN <<>> ELSE Contributions(files, n - 1) \o Alone(files[n])

\* the documents among the first n that do not load
Unreadable(files, n) == {i \in 1..n : ~files[i].ok}

\* C9: a document that does not load contributes no record and one
\* (document, message) error; the loop goes on to the next document, and every
\* document contributes the records it gives when processed alone.
C9_BatchGoesOn ==
    /\ Len(returned) = file_idx - 1
    /\ (pc = "next_file" /\ file_idx <= Len(uploaded_files)) => ENABLED (Load \/ LoadFails)
    /\ \A i \in 1..Len(returned) :
         /\ returned[i].rows = Alone(uploaded_files[i])
         /\ ~uploaded_files[i].ok => returned[i].rows = <<>> /\ Truthy(returned[i].err)
    /\ all_data = Contributions(uploaded_files, Len(returned))
    /\ Len(errors) = Cardinality(Unreadable(uploaded_files, Len(returned)))
    /\ \A e \in 1..Len(errors) :
           \E i \in Unreadable(uploaded_files, Len(returned)) :
               errors[e][1] = uploaded_files[i].name

\* a finished batch with an unreadable document between two documents that gave
\* records
C9_Witness ==
    /\ Len(uploaded_files) = 3 /\ file_idx = 4
    /\ ~uploaded_files[2].ok /\ Len(errors) = 1
    /\ returned[1].rows # <<>> /\ returned[3].rows # <<>>
    /\ Len(all_data) = Len(returned[1].rows) + Len(returned[3].rows)

\* the states in which the product loop has a table to read
InTable == pc \in {"loop", "obs", "unify"} /\ header_row # 0

\* the value of a mapped column in row r of the active sheet, zero when the
\* table header names no such column
ColumnNumber(key, r) ==
    IF key \in DOMAIN col_map THEN Float(Cell(active, r, col_map[key])) ELSE 0

DescriptionOf(r) == Norm(Cell(active, r, col_map["Descripcion"]))
IsTotalsRow(r) == StartsWith(DescriptionOf(r), "TOTAL")
MentionsTotal(r) == Contains("TOTAL", DescriptionOf(r))

\* the first row below the table header whose description starts with TOTAL,
\* 0 when there is none
FirstTotalsRow ==
    LET S == {r \in (header_row + 1)..NRows(active) : IsTotalsRow(r)}
    IN IF S = {} THEN 0 ELSE Least(S)

\* the product a row stands for: the line total as given when it is positive,
\* quantity times unit price otherwise
ExpectedProduct(r) ==
    LET q == ColumnNumber("Cantidad", r)
        pr == ColumnNumber("Precio Unitario", r)
        t == ColumnNumber("Total Linea", r)
    IN ("Descripcion" :> Cell(active, r, col_map["Descripcion"]))
       @@ ("Cantidad" :> q) @@ ("Precio Unitario" :> pr)
       @@ ("Total Linea" :> IF t > 0 THEN t ELSE (q * pr) \div Scale)

\* the products of the rows of S, in row order
ProductsOf(S) ==
    [i \in 1..Cardinality(S) |->
        ExpectedProduct(CHOOSE r \in S : Cardinality({q \in S : q <= r}) = i)]

\* the rows the loop has gone past
RowsPassed == (header_row + 1)..(curr - 1)

HasDescriptionAndPrice(r) == DescriptionOf(r) # "" /\ ColumnNumber("Precio Unitario", r) > 0

\* C3: the product loop never goes past the first row whose normalized
\* description starts with TOTAL, so neither that row nor a later one becomes a
\* product; when the loop stops on it, every row accepted before it is in the
\* product list.
C3_StopsAtTotalsRow ==
    InTable =>
        /\ FirstTotalsRow # 0 => curr <= FirstTotalsRow
        /\ ended = "stop" =>
             /\ curr = FirstTotalsRow
             /\ last_row_table = curr
             /\ products = ProductsOf({r \in RowsPassed :
                                          HasDescriptionAndPrice(r) /\ ~MentionsTotal(r)})

\* the loop stopped on a totals row with a product before it and a row after it
\* that has a description and a positive price
C3_Witness ==
    /\ InTable /\ ended = "stop"
    /\ products # <<>>
    /\ \E r \in (curr + 1)..NRows(active) : HasDescriptionAndPrice(r) /\ ~MentionsTotal(r)

\* C4 as stated: the rows gone past that were accepted are those with a
\* non-empty normalized description and a unit price above zero.
C4_AcceptsOnDescriptionAndPrice ==
    InTable => products = ProductsOf({r \in RowsPassed : HasDescriptionAndPrice(r)})

\* C4: a row gone past was accepted exactly when its normalized description is
\* non-empty and does not contain TOTAL and its parsed unit price is above
\* zero; its line total is the sheet's when that parses above zero and quantity
\* times unit price otherwise.
C4_AcceptsUnlessTotalMentioned ==
    InTable =>
        /\ products = ProductsOf({r \in RowsPassed :
                                     HasDescriptionAndPrice(r) /\ ~MentionsTotal(r)})
        /\ \A i \in 1..Len(products) :
             /\ products[i]["Descripcion"] # Str("Widget A")
             /\ products[i]["Descripcion"] = Str("Widget B") =>
                    /\ products[i]["Cantidad"] = 10 * Scale
                    /\ products[i]["Total Linea"] = 125 * Scale

\* the loop has gone past a row with price zero and a total of 50, accepted a row
\* with no total and a row with a total of its own
C4_Witness ==
    /\ InTable
    /\ \E r \in RowsPassed :
           /\ DescriptionOf(r) = "WIDGET A"
           /\ ColumnNumber("Precio Unitario", r) = 0
           /\ ColumnNumber("Total Linea", r) = 50 * Scale
    /\ \E i, j \in 1..Len(products) :
           /\ products[i]["Descripcion"] = Str("Widget B")
           /\ products[j]["Total Linea"] # (products[j]["Cantidad"] * products[j]["Precio Unitario"]) \div Scale

\* C5 as stated: when the patience runs out, the row that ran it out and the
\* fifteen before it all have a blank description.
C5_SixteenBlanksInARow ==
    (InTable /\ ended = "patience") =>
        /\ curr - Patience > header_row
        /\ \A r \in (curr - Patience)..curr : DescriptionOf(r) = ""

\* the states in which the header fields of lines 182-278 are resolved
HeaderResolved == pc \in {"table", "loop", "obs", "unify"}

IsDDMMYYYY(v) ==
    /\ v.t = "str"
    /\ Len(v.s) = 10
    /\ Ch(v.s, 3) = "/" /\ Ch(v.s, 6) = "/"
    /\ IsDigitStr(SubSeq(v.s, 1, 2)) /\ IsDigitStr(SubSeq(v.s, 7, 10))
    /\ SubSeq(v.s, 4, 5) \in {"01", "02", "03", "04", "05", "06", "07", "08", "09", "10", "11", "12"}

\* C6 as stated: when the year, month and day labels all resolve, Fecha is
\* DD/MM/YYYY with a two-digit day and a two-digit month in 01..12; day "5",
\* month "MARZO", year "2024" give "05/03/2024".
C6_AssembledDateIsPadded ==
    (HeaderResolved /\ AllPartsResolve(active)) =>
        /\ IsDDMMYYYY(header_data.Fecha)
        /\ DateParts(active) = [y |-> Str("2024"), m |-> Str("MARZO"), d |-> Str("5")] =>
               header_data.Fecha = Str("05/03/2024")

\* n in two digits
TwoDigits(n) == IF n < 10 THEN "0" \o NatStr(n) ELSE NatStr(n)

\* the keyword sets of the header fields resolved from a label
FieldKeywords ==
    [Cliente |-> kw_cliente, Num_Exp |-> kw_exp, Fecha |-> kw_year \o kw_month \o kw_day \o kw_fecha,
     Condicion_Venta |-> kw_cond_strong \o kw_cond_weak, Forma_Pago |-> kw_pago,
     Puerto_Emb |-> kw_emb, Puerto_Dest |-> kw_dest, Tipo_Cambio |-> kw_tc,
     Observaciones |-> kw_obs]

\* the normalized text of each keyword of these sets
KeywordNorm ==
    [w \in UNION {{FieldKeywords[f][i] : i \in 1..Len(FieldKeywords[f])} : f \in DOMAIN FieldKeywords}
        |-> normalize_text(Str(w))]

\* the cells of the active sheet whose normalized text holds a keyword of kws
CellsMatching(kws) ==
    {rc \in (1..NRows(active)) \X (1..NCols(active)) :
        \E k \in 1..Len(kws) :
            Contains(KeywordNorm[kws[k]], Norm(Cell(active, rc[1], rc[2])))}

\* C10: when one of year, month and day does not resolve, Fecha is None if no
\* cell holds FECHA or DATE or no value is found near the first that does; a
\* calendar value found there is rendered DD/MM/YYYY (2024-03-05 gives
\* "05/03/2024") and any other value is returned as it is.
C10_FallbackDate ==
    (HeaderResolved /\ ~AllPartsResolve(active)) =>
        LET raw == ValueNear(active, kw_fecha)
        IN /\ CellsMatching(kw_fecha) = {} => header_data.Fecha = None
           /\ raw = None => header_data.Fecha = None
           /\ raw.t = "datetime" =>
                  header_data.Fecha =
                      Str(TwoDigits(raw.n % 100) \o "/" \o TwoDigits((raw.n \div 100) % 100)
                          \o "/" \o NatStr(raw.n \div 10000))
           /\ raw = Date(2024, 3, 5) => header_data.Fecha = Str("05/03/2024")
           /\ raw.t \notin {"none", "datetime"} => header_data.Fecha = raw

\* the day label resolves and the year label does not, and the FECHA label
\* gives the 5th of March of 2024
C10_Witness ==
    /\ HeaderResolved
    /\ Truthy(DateParts(active).d) /\ ~Truthy(DateParts(active).y)
    /\ ValueNear(active, kw_fecha) = Date(2024, 3, 5)
    /\ header_data.Fecha = Str("05/03/2024")

\* the texts of the global scan in scan order: the cells row by row, then the
\* print header/footer text
Scanned == get_all_sheet_text(active)

\* the codes of the incoterm list that are a whole word of a text
CodesIn(text) ==
    {incoterm_list[i] : i \in {j \in 1..Len(incoterm_list) :
                                  WordIn(incoterm_list[j], Norm(Str(text)))}}

AllResolved == pc = "unify"

\* C8 as stated: a header field none of whose keywords is in any cell is None.
C8_NoLabelNoValue ==
    AllResolved =>
        \A f \in DOMAIN FieldKeywords :
            CellsMatching(FieldKeywords[f]) = {} => header_data[f] = None

\* some scanned text holds a rescue phrase of the condition of sale
RescuePhraseScanned ==
    \E i \in 1..Len(Scanned) : \E k \in 1..Len(rescue_phrases) :
        Contains(rescue_phrases[k], Norm(Str(Scanned[i])))

\* C8: a header field resolved from a label only (Cliente, Num_Exp, Fecha,
\* Forma_Pago, Puerto_Emb, Puerto_Dest, Tipo_Cambio) is None when none of its
\* keywords is in any cell; Condicion_Venta is None when, besides, no scanned
\* text holds a rescue phrase.
C8_NoLabelNoValueButRescue ==
    AllResolved =>
        /\ \A f \in DOMAIN FieldKeywords \ {"Condicion_Venta", "Observaciones"} :
               CellsMatching(FieldKeywords[f]) = {} => header_data[f] = None
        /\ (CellsMatching(FieldKeywords["Condicion_Venta"]) = {} /\ ~RescuePhraseScanned) =>
               header_data["Condicion_Venta"] = None

\* a grid with text in its first cell and no cell for the payment keywords,
\* while the customer label resolves and the condition of sale has neither
\* label nor rescue phrase
C8_Witness ==
    /\ AllResolved
    /\ Truthy(Cell(active, 1, 1))
    /\ CellsMatching(kw_pago) = {} /\ header_data.Forma_Pago = None
    /\ CellsMatching(FieldKeywords["Condicion_Venta"]) = {} /\ ~RescuePhraseScanned
    /\ header_data["Condicion_Venta"] = None
    /\ Truthy(header_data.Cliente)

\* the cells inside the bounds of the label search whose normalized text holds
\* a keyword of kws
CellsInBounds(kws) ==
    {rc \in CellsMatching(kws) : rc[1] <= LabelMaxRow /\ rc[2] <= LabelMaxCol}

\* C11: for every keyword set, find_label_cell gives None exactly when no cell
\* within rows 1..150 and columns 1..50 holds a keyword of the set, and
\* otherwise the matching cell that comes first when the rows are read from the
\* top and each row from the left, whichever keyword of the list it matches.
C11_FirstMatchRowMajor ==
    HeaderResolved =>
        \A kws \in LabelSets :
            LET found == find_label_cell(active, kws)
            IN /\ found = NoCoord <=> CellsInBounds(kws) = {}
               /\ found # NoCoord =>
                      /\ found \in CellsInBounds(kws)
                      /\ \A o \in CellsInBounds(kws) :
                             found[1] < o[1] \/ (found[1] = o[1] /\ found[2] <= o[2])

\* "Sold to", the last keyword of the customer list, stands left of "Cliente",
\* the first one, and "Customer" stands in the row below in a column left of
\* both; the search returns the cell of "Sold to", whose value is the cell below it
C11_Witness ==
    /\ HeaderResolved
    /\ Cell(active, 2, 1) = Str("Customer")
    /\ Cell(active, 1, 2) = Str("Sold to")
    /\ Cell(active, 1, 3) = Str("Cliente")
    /\ find_label_cell(active, kw_cliente) = <<1, 2>>
    /\ header_data.Cliente = Str("Destination")

\* a probed value the code takes: its normalized text is not empty and holds
\* neither CLIENTE nor FECHA
Taken(v) ==
    /\ Norm(v) # ""
    /\ ~Contains("CLIENTE", Norm(v))
    /\ ~Contains("FECHA", Norm(v))

\* the steps 1..DefaultMaxSteps below and to the right of a cell at which the
\* probed value is taken
TakenBelow(r, c) == {st \in 1..DefaultMaxSteps : Taken(Cell(active, r + st, c))}
TakenRight(r, c) == {st \in 1..DefaultMaxSteps : Taken(Cell(active, r, c + st))}

\* C12: from every cell of the sheet, extract_value_near_label gives the value,
\* as the cell holds it, of the nearest taken cell below when there is one,
\* else of the nearest taken cell to the right, and None exactly when no cell
\* within max_steps in either direction is taken; with one direction switched
\* off only the other is probed, and with max_steps 1 only the adjacent cells.
C12_BelowThenRightNearest ==
    HeaderResolved =>
        \A r \in 1..NRows(active), c \in 1..NCols(active) :
            LET val == extract_value_near_label(active, r, c, TRUE, TRUE, DefaultMaxSteps)
                below == TakenBelow(r, c)
                right == TakenRight(r, c)
            IN /\ below # {} =>
                      \E st \in below : /\ \A o \in below : st <= o
                                        /\ val = Cell(active, r + st, c)
               /\ (below = {} /\ right # {}) =>
                      \E st \in right : /\ \A o \in right : st <= o
                                        /\ val = Cell(active, r, c + st)
               /\ val = None <=> (below = {} /\ right = {})
               /\ extract_value_near_label(active, r, c, FALSE, TRUE, DefaultMaxSteps) =
                      (IF right = {} THEN None
                       ELSE Cell(active, r, c + CHOOSE st \in right : \A o \in right : st <= o))
               /\ extract_value_near_label(active, r, c, TRUE, FALSE, DefaultMaxSteps) =
                      (IF below = {} THEN None
                       ELSE Cell(active, r + CHOOSE st \in below : \A o \in below : st <= o, c))
               /\ extract_value_near_label(active, r, c, TRUE, TRUE, 1) =
                      (IF Taken(Cell(active, r + 1, c)) THEN Cell(active, r + 1, c)
                       ELSE IF Taken(Cell(active, r, c + 1)) THEN Cell(active, r, c + 1)
                       ELSE None)

\* the customer label has an empty cell below it, a value two cells below and a
\* taken cell right beside it: the value below is returned; the label of the
\* condition of sale has nothing below it, the customer label beside it, which
\* is not taken, and a text two cells to the right: that text is returned
C12_Witness ==
    /\ HeaderResolved
    /\ Cell(active, 1, 1) = Str("Incoterm") /\ TakenBelow(1, 1) = {}
    /\ Cell(active, 1, 2) = Str("Cliente")
    /\ Cell(active, 2, 2) = None /\ Cell(active, 3, 2) = Str("ACME EXW")
    /\ Cell(active, 1, 3) = Str("Tipo Flete")
    /\ header_data.Cliente = Str("ACME EXW")
    /\ extract_value_near_label(active, 1, 1, TRUE, TRUE, DefaultMaxSteps) = Str("Tipo Flete")

\* the normalized text of a value holds a keyword of some field's keyword list
LooksLikeLabel(v) ==
    \E w \in DOMAIN KeywordNorm : Contains(KeywordNorm[w], Norm(v))

\* C13 as stated: the value extract_value_near_label returns for the label of
\* a header field never holds a keyword of any field's keyword list, neither
\* as the function's result nor as the field stored in header_data.
C13_NeverReturnsALabel ==
    HeaderResolved =>
        /\ \A kws \in LabelSets : ~LooksLikeLabel(ValueNear(active, kws))
        /\ \A f \in DOMAIN LabelFields : ~LooksLikeLabel(header_data[f])

\* "Sold to" over "Destination" in the first column: the customer is the
\* destination label
C13_LabelTakenAsValue ==
    /\ HeaderResolved
    /\ Cell(active, 1, 1) = Str("Sold to")
    /\ Cell(active, 2, 1) = Str("Destination")
    /\ header_data.Cliente = Str("Destination")

\* the positions of the scanned texts that hold a rescue phrase
RescueHits ==
    {i \in 1..Len(Scanned) :
        \E k \in 1..Len(rescue_phrases) : Contains(rescue_phrases[k], Norm(Str(Scanned[i])))}

\* C14: when a scanned text holds a rescue phrase, Condicion_Venta is the first
\* such text as it was scanned, whatever the labels give; without one it is the
\* value near the first strong label when a strong label exists, even if that
\* value is None; the value near the weak label is used only when there is no
\* strong label.
C14_RescueThenStrongThenWeak ==
    HeaderResolved =>
        /\ RescueHits # {} =>
               \E i \in RescueHits : /\ \A j \in RescueHits : i <= j
                                     /\ header_data.Condicion_Venta = Str(Scanned[i])
        /\ (RescueHits = {} /\ CellsInBounds(kw_cond_strong) # {}) =>
               header_data.Condicion_Venta = ValueNear(active, kw_cond_strong)
        /\ (RescueHits = {} /\ CellsInBounds(kw_cond_strong) = {}) =>
               header_data.Condicion_Venta = ValueNear(active, kw_cond_weak)

\* a sheet with a strong label whose value is "Tipo Flete", a weak label whose
\* value is "Collect" and a cell with a rescue phrase: the cell's text wins
C14_Witness ==
    /\ HeaderResolved
    /\ ValueNear(active, kw_cond_strong) = Str("Tipo Flete")
    /\ ValueNear(active, kw_cond_weak) = Str("Collect")
    /\ Scanned[Len(Scanned)] = "Venta bajo condici]n"
    /\ header_data.Condicion_Venta = Str("Venta bajo condici]n")

\* the streaming loop of the current document was entered and is over
LoopOver == pc \in {"obs", "unify"} /\ header_row # 0

\* the three ways the loop can have ended, read off the state it left: the row
\* it stands on is a totals row, the row index is past sheet.max_row, more
\* than Patience blank rows were counted
OnStopRow == StartsWith(Norm(Cell(active, curr, col_map["Descripcion"])), "TOTAL")
PastMaxRow == curr > max_row
OutOfPatience == empty_streak > Patience

\* C15: the streaming loop, once entered, is left; when it is over exactly one
\* of the three ways it can end holds; and a pass that does not end the loop
\* moves the row index up.
C15_LoopEndsOneOfThreeWays ==
    /\ (pc = "loop") ~> (pc = "obs")
    /\ [](LoopOver =>
             \/ OnStopRow /\ ~PastMaxRow /\ ~OutOfPatience
             \/ ~OnStopRow /\ PastMaxRow /\ ~OutOfPatience
             \/ ~OnStopRow /\ ~PastMaxRow /\ OutOfPatience)
    /\ [][(pc = "loop" /\ pc' = "loop") => curr' > curr]_vars

\* a table that fills the sheet: the loop has accepted every row below the
\* header and ended with the row index past sheet.max_row
C15_Witness ==
    /\ LoopOver
    /\ PastMaxRow /\ curr = LabelMaxRow + 1
    /\ Len(products) = LabelMaxRow - 1

\* the cells of the loaded grid inside the footer region: FooterRows rows from
\* the row after the table's last row, no further than sheet.max_row, and the
\* columns before FooterCols
ObsRegion ==
    {rc \in ((last_row_table + 1)..Min(last_row_table + FooterRows, max_row))
            \X (1..(FooterCols - 1)) :
        rc[1] <= NRows(active) /\ rc[2] <= NCols(active)}

\* the text of a cell as the footer search reads it
FooterTextAt(rc) ==
    IF Truthy(Cell(active, rc[1], rc[2])) THEN Strip(PyStr(Cell(active, rc[1], rc[2]))) ELSE ""

\* the cells of the region with a text longer than the minimum length and
\* without a stop marker
ObsCandidates ==
    {rc \in ObsRegion :
        /\ Len(FooterTextAt(rc)) > MinLength
        /\ \A k \in 1..Len(footer_stop_markers) :
               ~Contains(footer_stop_markers[k], Norm(Str(FooterTextAt(rc))))}

\* the print header/footer text, "" when there is none
PrintText == Join(Truthies(active.hf))

\* the first two sources of the observations give what they should: the value
\* near the label when it is not empty, else the longest candidate of the
\* footer region
LabelThenFooter ==
    /\ Truthy(ValueNear(active, kw_obs)) =>
           header_data.Observaciones = ValueNear(active, kw_obs)
    /\ (~Truthy(ValueNear(active, kw_obs)) /\ ObsCandidates # {}) =>
           \E rc \in ObsCandidates :
               /\ \A o \in ObsCandidates : Len(FooterTextAt(o)) <= Len(FooterTextAt(rc))
               /\ header_data.Observaciones = Str(FooterTextAt(rc))

\* C16 as stated: label value, else longest footer text, else the print
\* header/footer text whenever there is one, else nothing.
C16_LabelFooterPrintText ==
    AllResolved =>
        /\ LabelThenFooter
        /\ (~Truthy(ValueNear(active, kw_obs)) /\ ObsCandidates = {}) =>
               header_data.Observaciones = (IF PrintText # "" THEN Str(PrintText) ELSE None)

\* C16: Observaciones is the value near the observations label when that is
\* not empty; else the longest text of the footer region among those longer
\* than 20 characters without a stop marker; else the print header/footer text
\* when it is longer than 20 characters; else None.
C16_LabelFooterLongPrintText ==
    AllResolved =>
        /\ LabelThenFooter
        /\ (~Truthy(ValueNear(active, kw_obs)) /\ ObsCandidates = {}) =>
               header_data.Observaciones =
                   (IF Len(PrintText) > MinLength THEN Str(PrintText) ELSE None)

\* a table closed by a totals row with two texts below it, the shorter one
\* first, no observations label and a print header text: the longer text of
\* the footer is the observation
C16_Witness ==
    /\ AllResolved
    /\ ~Truthy(ValueNear(active, kw_obs))
    /\ PrintText # ""
    /\ \E a, b \in ObsCandidates :
           /\ a[1] < b[1]
           /\ Len(FooterTextAt(a)) < Len(FooterTextAt(b))
           /\ header_data.Observaciones = Str(FooterTextAt(b))

====
